---------------------------- MODULE Spec2Model ----------------------------
(***************************************************************************)
(* The incremental crawl / dedup / checkpoint engine of the supermarket    *)
(* scrapers: JumboScraper, AHScraper and AldiScraper of "General Scraper", *)
(* and EnhancedJumboScraper of generalScraper.                             *)
(*                                                                         *)
(* One behaviour follows one scraper class (chosen in Init) over several   *)
(* runs of the process: a run constructs the scraper object from the files *)
(* on disk, drives the page loop, and ends by returning (pc = "done"), by  *)
(* an exception that leaves scrape() or the constructor (pc = "raised"),   *)
(* or by the process being killed (pc = "down").  The files on disk        *)
(* survive a run; the object's fields do not.                              *)
(*                                                                         *)
(* The remote API is the environment.  What it answers for a partition     *)
(* and page is chosen the first time that page is asked for and kept in    *)
(* catalog, so every later request of the same page (in this run or a      *)
(* later one) gets the same answer.                                        *)
(*                                                                         *)
(* scraper_runner of generalScraper is a separate program: its behaviours  *)
(* (RunnerSpec) follow main and run_scrapers_parallel with one worker      *)
(* process per shop; no scraper object of the classes above is part of it. *)
(*                                                                         *)
(* plus_scraper of generalScraper is a program of functions, not a class:  *)
(* its behaviours (PlusSpec) follow scrape_plus_data over the files of     *)
(* the data directory.  A call of checkjumbo.JumboConnector has its own    *)
(* behaviours (ConnectorSpec).                                             *)
(***************************************************************************)
EXTENDS Integers, Sequences, FiniteSets, TLC

\* ------------------------------------------------------------------ bounds
\* Product keys are 1..MaxKey.
MaxKey == 2
\* Most records one page holds.
MaxPageLen == 2
\* Most records the remote API serves over all pages of a behaviour.
MaxRecords == 3
\* Most runs (constructions of the scraper object) in a behaviour.
MaxRuns == 2
\* Most partitions (subcategories, categories) the remote API lists.
MaxPartitions == 2

\* --------------------------------------------------------- program constants
\* JumboScraper.limit
limit == 30
\* retries in JumboScraper.scrape_page
RETRIES == 3

\* ------------------------------------------------------------------ records
\* A record is modelled by its key; NoId is a record without the key field
\* ("id" / "webshopId" / "articleId").
NoId == 0
Keys == 1..MaxKey
Records == Keys \cup {NoId}

Min(a, b) == IF a < b THEN a ELSE b

\* The keys of the records of a list (records without a key have none).
Ids(products) == {products[i] : i \in DOMAIN products} \ {NoId}

\* No key occurs twice in the list.
NoDuplicateKey(products) ==
    \A i, j \in DOMAIN products :
        (i # j /\ products[i] # NoId) => products[i] # products[j]

IsPrefix(s, t) == Len(s) <= Len(t) /\ SubSeq(t, 1, Len(s)) = s

\* -------------------------------------------------------------------- files
\* A file is absent, holds a JSON document, or holds a torn (empty or partly
\* written) text that json.load rejects.
Absent == [kind |-> "absent"]
Torn == [kind |-> "torn"]
JsonList(products) == [kind |-> "json", data |-> products]

\* The records of an output file; none when it holds no JSON document.
FileRecords(f) == IF f.kind = "json" THEN f.data ELSE <<>>

\* ---------------------------------------------------------------- connector
\* What the remote API answers to one page request: a page of products
\* (empty when the partition is exhausted), an HTTP error status, or, for
\* JumboScraper, which alone tells 504 from the other error statuses, 504 on
\* every attempt.  Or the request itself fails: session.get raises
\* (ClientConnectionError, a timeout), and there is no response.
OkPage(products) == [kind |-> "ok", products |-> products]
ErrorResponse == [kind |-> "error", products |-> <<>>]
TimeoutResponse == [kind |-> "timeout", products |-> <<>>]
TransportError == [kind |-> "transport", products |-> <<>>]

RECURSIVE RecordsIn(_)
RecordsIn(pages) ==
    IF pages = <<>> THEN 0
    ELSE Len(Head(pages).products) + RecordsIn(Tail(pages))

RECURSIVE RecordsServed(_)
RecordsServed(cat) ==
    IF cat = <<>> THEN 0
    ELSE RecordsIn(Head(cat).pages) + RecordsServed(Tail(cat))

\* The answers the API may give to a page asked for the first time, when it
\* has served `served` records so far.
Responses(served) ==
    {ErrorResponse, TimeoutResponse, TransportError}
    \cup {OkPage(p) : p \in UNION {[1..n -> Records] :
                                   n \in 0..Min(MaxPageLen, MaxRecords - served)}}

VARIABLES
    scraper,              \* the scraper class this behaviour runs
    pc,                   \* where the run is
    runs,                 \* how many times the scraper object was constructed
    output_file,          \* data/<shop>_products.json
    progress_file,        \* data/<shop>_scrape_progress.json
    scraped_products,     \* self.scraped_products (Jumbo, Aldi, EnhancedJumbo)
    scraped_ids,          \* AHScraper.scraped_ids: product keys and subcategory names
    scraped_categories,   \* AldiScraper.scraped_categories
    last_offset,          \* JumboScraper.last_offset
    total_scraped_items,  \* self.total_scraped_items
    offset,               \* the local offset of JumboScraper.scrape
    page,                 \* the local page of scrape_subcategory / scrape_category
    part,                 \* the index of the partition the loop is at
    retries,              \* the local retries of JumboScraper.scrape_page
    response,             \* the body of the response being processed
    catalog,              \* the answers of the remote API so far, by partition
    listing,              \* whether the API has listed its last partition
    completed,            \* history: partitions driven to completion in this run
    completed_earlier,    \* history: partitions driven to completion in earlier runs
    prev_output,          \* history: the output file when the previous run ended
    prev_pc,              \* history: how the previous run ended
    auth_raised,          \* history: authenticate raised in this run
    argv,                 \* scraper_runner: sys.argv[1:]
    mode,                 \* scraper_runner.main: mode
    shops,                \* run_scrapers_parallel: its argument
    modules,              \* what import_module finds for each shop, once looked up
    worker,               \* run_scrapers_parallel: one process per element of shops
    results,              \* run_scrapers_parallel: the manager dict
    joined,               \* run_scrapers_parallel: processes joined so far
    summary,              \* what run_scrapers_parallel returned
    runner_pc,            \* where the runner is
    token,                \* whether authenticate / fetch_version_token gave a token
    all_products,         \* plus_scraper.scrape_plus_data: all_products
    category_products,    \* plus_scraper.scrape_category_products: all_products
    total_pages,          \* plus_scraper.scrape_category_products: total_pages
    categories_file,      \* plus_scraper: data/top_level_categories.json
    category_files,       \* plus_scraper: data/<slug>.json, by slug
    connector_pc,         \* checkjumbo.JumboConnector: where the call is
    requested_page,       \* JumboConnector: the page asked for
    size,                 \* JumboConnector: the size argument (0 for None)
    total,                \* JumboConnector: response['products']['total'] of page 0
    yielded               \* search_all_products: the requests whose pages it yielded

vars == <<scraper, pc, runs, output_file, progress_file, scraped_products,
          scraped_ids, scraped_categories, last_offset, total_scraped_items,
          offset, page, part, retries, response, catalog, listing,
          completed, completed_earlier, prev_output, prev_pc, auth_raised,
          argv, mode, shops, modules, worker, results, joined, summary,
          runner_pc, token, all_products, category_products, total_pages,
          categories_file, category_files, connector_pc, requested_page, size, total, yielded>>

\* The state of scraper_runner, which no scraper class touches.
runner == <<argv, mode, shops, modules, worker, results, joined, summary,
            runner_pc>>

\* The files only plus_scraper writes, and the state of a JumboConnector call.
plus_files == <<categories_file, category_files>>
plus_locals == <<all_products, category_products, total_pages>>
connector == <<connector_pc, requested_page, size, total, yielded>>

files == <<output_file, progress_file>>
\* The fields of the scraper object and the locals of its methods.
object == <<scraped_products, scraped_ids, scraped_categories, last_offset,
            total_scraped_items, offset, page, part, retries, response>>
remote == <<catalog, listing>>
history == <<completed, completed_earlier, prev_output, prev_pc, auth_raised>>
\* All that a call of a JumboConnector leaves alone of the scrapers.
scraper_state == <<scraper, pc, runs, files, object, remote, history, token,
                   plus_locals, plus_files>>

NoResponse == [kind |-> "none", products |-> <<>>]

\* The names a partition may have.  AHScraper keeps subcategory names and
\* product keys in one set, so a name may equal a product key: MaxKey is both.
PartitionNames == MaxKey..(MaxKey + MaxPartitions)

\* The name of partition i of the catalog.
NameOf(i) == catalog[i].name

\* Page i (from 1) of partition p as the API answered it, or NoResponse.
PageAt(p, i) ==
    IF p <= Len(catalog) /\ i <= Len(catalog[p].pages)
    THEN catalog[p].pages[i] ELSE NoResponse

\* What the API may answer when page i of partition p is asked for: what it
\* answered before, or any answer when the page is asked for the first time.
Answers(p, i) ==
    IF PageAt(p, i) # NoResponse THEN {PageAt(p, i)}
    ELSE Responses(RecordsServed(catalog))

\* The API has answered r for page i of partition p, and the catalog keeps it.
Asked(p, i, r) ==
    catalog' = IF PageAt(p, i) # NoResponse THEN catalog
               ELSE [catalog EXCEPT ![p].pages = Append(@, r)]

\* The loop over the partitions is at number p, and the API lists it as n.
Lists(p, n) ==
    IF p <= Len(catalog)
    THEN n = NameOf(p) /\ UNCHANGED remote
    ELSE /\ listing = "open"
         /\ Len(catalog) < MaxPartitions
         /\ catalog' = Append(catalog, [name |-> n, pages |-> <<>>])
         /\ UNCHANGED listing

\* The loop over the partitions is past the last one the API lists.
ListEnds(p) ==
    /\ p > Len(catalog)
    /\ listing' = "closed"
    /\ UNCHANGED catalog

\* ------------------------------------------------------- shared by scrapers
\* seen.update(p[<key>] for p in new_products): the keys are added one by
\* one, and the first record without the key raises KeyError.
RECURSIVE KeysBeforeNoId(_)
KeysBeforeNoId(products) ==
    IF products = <<>> \/ Head(products) = NoId THEN {}
    ELSE {Head(products)} \cup KeysBeforeNoId(Tail(products))

HasNoId(products) == \E i \in DOMAIN products : products[i] = NoId

\* write_products of JumboScraper and AldiScraper: nothing for an empty
\* list; else open "r+", json.load, extend, seek(0), json.dump.  It raises
\* when the file is missing or holds no JSON.
WriteRaises(f, products) == products # <<>> /\ f.kind # "json"
WriteProducts(f, products) ==
    IF products = <<>> THEN f ELSE JsonList(f.data \o products)

\* ------------------------------------------------------------- JumboScraper
\* A checkpoint whose cursor is one page past the one given.
ProgressPastPage(seen, off) ==
    [kind |-> "json", scraped_products |-> seen, last_offset |-> off + limit]

\* A checkpoint whose cursor is back at the first page.
ProgressAtStart(seen, off) ==
    [kind |-> "json", scraped_products |-> seen, last_offset |-> 0]

\* save_progress writes {"scraped_products": [...], "last_offset": n}.
JumboProgress(seen, off) ==
    [kind |-> "json", scraped_products |-> seen, last_offset |-> off]

\* A page taken whole, with no filter against the seen keys.
EveryProduct(products, seen) == products

\* new_products = [p for p in products if p.get("id") not in self.scraped_products]
\* A record without "id" has the key None, which is in no seen set.
JumboNewProducts(products, seen) ==
    SelectSeq(products, LAMBDA p : p \notin seen)

\* JumboScraper.__init__
JumboInit ==
    /\ scraper = "JumboScraper" /\ pc = "construct"
    /\ IF progress_file.kind = "torn"
       THEN \* json.load raises JSONDecodeError out of the constructor
            /\ pc' = "raised"
            /\ UNCHANGED <<output_file, scraped_products, last_offset, offset>>
       ELSE LET seen == IF progress_file.kind = "json"
                        THEN progress_file.scraped_products ELSE {}
                off == IF progress_file.kind = "json"
                       THEN progress_file.last_offset ELSE 0
            IN /\ scraped_products' = seen
               /\ last_offset' = off
               /\ output_file' = IF off = 0 THEN JsonList(<<>>) ELSE output_file
               /\ offset' = off
               /\ pc' = "fetch"
    /\ UNCHANGED <<connector, plus_files, token, plus_locals, runner,
                   scraper, runs, progress_file, scraped_ids, scraped_categories,
                   total_scraped_items, page, part, retries, response,
                   remote, history>>

\* JumboScraper.scrape_page: one attempt of session.get inside the retry loop.
JumboFetch ==
    /\ scraper = "JumboScraper" /\ pc = "fetch"
    /\ \E r \in Answers(1, offset \div limit + 1) :
        /\ Asked(1, offset \div limit + 1, r)
        /\ \/ \* 504: retries -= 1, and the loop ends (None) at 0.  A page
              \* that is not timing out for good answers by the third attempt.
              /\ r.kind = "timeout" \/ retries > 1
              /\ IF retries = 1
                 THEN pc' = "final" /\ retries' = RETRIES
                 ELSE pc' = "fetch" /\ retries' = retries - 1
              /\ UNCHANGED response
           \/ \* another ClientResponseError, or another exception of
              \* session.get (except Exception): return False
              /\ r.kind \in {"error", "transport"}
              /\ pc' = "final"
              /\ retries' = RETRIES
              /\ UNCHANGED response
           \/ \* a JSON body
              /\ r.kind = "ok"
              /\ response' = r
              /\ pc' = "process"
              /\ retries' = RETRIES
    /\ UNCHANGED <<connector, plus_files, token, plus_locals, runner,
                   scraper, runs, files, scraped_products, scraped_ids,
                   scraped_categories, last_offset, total_scraped_items, offset,
                   page, part, listing, history>>

\* JumboScraper.scrape_page, from the response body to the return.
JumboProcess ==
    /\ scraper = "JumboScraper" /\ pc = "process"
    /\ LET products == response.products
           new_products == JumboNewProducts(products, scraped_products)
       IN IF products = <<>>
          THEN \* "No products found": return False
               /\ pc' = "final"
               /\ UNCHANGED <<output_file, scraped_products, total_scraped_items>>
          ELSE IF WriteRaises(output_file, new_products)
          THEN \* caught by except Exception: return False
               /\ pc' = "final"
               /\ UNCHANGED <<output_file, scraped_products, total_scraped_items>>
          ELSE /\ output_file' = WriteProducts(output_file, new_products)
               /\ scraped_products' =
                      scraped_products \cup KeysBeforeNoId(new_products)
               /\ IF HasNoId(new_products)
                  THEN \* KeyError, caught by except Exception: return False
                       /\ pc' = "final"
                       /\ UNCHANGED total_scraped_items
                  ELSE /\ total_scraped_items' =
                              total_scraped_items + Len(new_products)
                       /\ pc' = "advance"
    /\ response' = NoResponse
    /\ UNCHANGED <<connector, plus_files, token, plus_locals, runner,
                   scraper, runs, progress_file, scraped_ids, scraped_categories,
                   last_offset, offset, page, part, retries, remote,
                   history>>

\* JumboScraper.scrape after a successful page: the cursor moves on and the
\* checkpoint is written.
JumboAdvance ==
    /\ scraper = "JumboScraper" /\ pc = "advance"
    /\ offset' = offset + limit
    /\ last_offset' = offset'
    /\ progress_file' = JumboProgress(scraped_products, last_offset')
    /\ pc' = "fetch"
    /\ UNCHANGED <<connector, plus_files, token, plus_locals, runner,
                   scraper, runs, output_file, scraped_products, scraped_ids,
                   scraped_categories, total_scraped_items, page, part, retries,
                   response, remote, history>>

\* JumboScraper.scrape after the loop: the last save_progress.
JumboFinal ==
    /\ scraper = "JumboScraper" /\ pc = "final"
    /\ progress_file' = JumboProgress(scraped_products, last_offset)
    /\ pc' = "done"
    /\ UNCHANGED <<connector, plus_files, token, plus_locals, runner,
                   scraper, runs, output_file, object, remote, history>>

\* ---------------------------------------------------------------- AHScraper
\* save_progress writes the list of scraped_ids.
AHProgress(ids) == [kind |-> "json", list |-> ids]

\* new_products = [p for p in products if p["webshopId"] not in self.scraped_ids]
AHNewProducts(products, seen) ==
    SelectSeq(products, LAMBDA p : p \notin seen)

\* AHScraper.write_products: creates the file with [] when it is missing,
\* then open "r+", json.load, extend, seek(0), json.dump, also for an empty
\* list.  It raises when the file holds no JSON.
AHWriteProducts(f, products) == JsonList(FileRecords(f) \o products)

\* AHScraper.__init__
AHInit ==
    /\ scraper = "AHScraper" /\ pc = "construct"
    /\ IF progress_file.kind = "torn"
       THEN \* json.load raises JSONDecodeError out of the constructor
            pc' = "raised" /\ UNCHANGED scraped_ids
       ELSE /\ scraped_ids' = IF progress_file.kind = "json"
                              THEN progress_file.list ELSE {}
            /\ pc' = "auth"
    /\ UNCHANGED <<connector, plus_files, token, plus_locals, runner,
                   scraper, runs, files, scraped_products, scraped_categories,
                   last_offset, total_scraped_items, offset, page, part, retries,
                   response, remote, history>>

\* What AHConnector.authenticate does with the answer to its POST:
\* raise_for_status or the transport raises, or the JSON body is read and
\* .get("access_token") is kept, None when the body has no such key.
AuthOutcomes == {"token", "no_token", "raises"}

\* A scrape that goes on to the category listing whatever authenticate did.
ListAnyway(outcome) == "list"

\* Where AHScraper.scrape is after `await self.connector.authenticate(session)`:
\* at get_categories when authenticate returns, with a token or with None,
\* or ended by the exception authenticate raises.
AfterAuthenticate(outcome) == IF outcome = "raises" THEN "raised" ELSE "list"

\* AHConnector.authenticate, called first by AHScraper.scrape.
AHAuthenticate ==
    /\ scraper = "AHScraper" /\ pc = "auth"
    /\ \E outcome \in AuthOutcomes :
        /\ token' = IF outcome = "token" THEN "token" ELSE "none"
        /\ auth_raised' = (outcome = "raises")
        /\ pc' = AfterAuthenticate(outcome)
    /\ UNCHANGED <<connector, plus_files, plus_locals, runner, scraper,
                   runs, files, object, remote, completed, completed_earlier,
                   prev_output, prev_pc>>

\* AHScraper.scrape reaches the next subcategory: scrape_subcategory up to
\* its page loop.
AHSubcategory ==
    /\ scraper = "AHScraper" /\ pc = "list"
    /\ \E n \in PartitionNames :
        /\ Lists(part, n)
        /\ IF n \in scraped_ids
           THEN \* "already scraped. Skipping."
                part' = part + 1 /\ pc' = "list"
           ELSE part' = part /\ pc' = "fetch"
    /\ page' = 0
    /\ UNCHANGED <<connector, plus_files, token, plus_locals, runner,
                   scraper, runs, files, scraped_products, scraped_ids,
                   scraped_categories, last_offset, total_scraped_items, offset,
                   retries, response, history>>

\* get_categories or get_sub_categories raises (raise_for_status).
AHListError ==
    /\ scraper = "AHScraper" /\ pc = "list"
    /\ pc' = "raised"
    /\ UNCHANGED <<connector, plus_files, token, plus_locals, runner,
                   scraper, runs, files, object, remote, history>>

\* AHScraper.scrape is past the last subcategory.
AHListEnd ==
    /\ scraper = "AHScraper" /\ pc = "list"
    /\ ListEnds(part)
    /\ pc' = "final"
    /\ UNCHANGED <<connector, plus_files, token, plus_locals, runner,
                   scraper, runs, files, object, history>>

\* AHConnector.search_products for the current page; it never retries.
AHFetch ==
    /\ scraper = "AHScraper" /\ pc = "fetch"
    /\ \E r \in Answers(part, page + 1) \ {TimeoutResponse} :
        /\ Asked(part, page + 1, r)
        /\ IF r.kind = "ok"
           THEN response' = r /\ pc' = "process"
           ELSE \* raise_for_status raises out of scrape
                pc' = "raised" /\ UNCHANGED response
    /\ UNCHANGED <<connector, plus_files, token, plus_locals, runner,
                   scraper, runs, files, scraped_products, scraped_ids,
                   scraped_categories, last_offset, total_scraped_items, offset,
                   page, part, retries, listing, history>>

\* AHScraper.scrape_subcategory: the body of the page loop after the fetch,
\* and the end of the method when the page is empty.
AHProcess ==
    /\ scraper = "AHScraper" /\ pc = "process"
    /\ LET products == response.products
           new_products == AHNewProducts(products, scraped_ids)
       IN IF products = <<>>
          THEN \* break; self.scraped_ids.add(subcategory_name)
               /\ scraped_ids' = scraped_ids \cup {NameOf(part)}
               /\ completed' = completed \cup {NameOf(part)}
               /\ part' = part + 1
               /\ pc' = "list"
               /\ UNCHANGED <<output_file, total_scraped_items, page>>
          ELSE IF HasNoId(products) \/ output_file.kind = "torn"
          THEN \* KeyError in the filter, or JSONDecodeError in write_products
               /\ pc' = "raised"
               /\ UNCHANGED <<output_file, scraped_ids, total_scraped_items,
                              page, part, completed>>
          ELSE /\ output_file' = AHWriteProducts(output_file, new_products)
               /\ scraped_ids' = scraped_ids \cup Ids(new_products)
               /\ total_scraped_items' = total_scraped_items + Len(new_products)
               /\ page' = page + 1
               /\ pc' = "fetch"
               /\ UNCHANGED <<part, completed>>
    /\ response' = NoResponse
    /\ UNCHANGED <<connector, plus_files, token, plus_locals, runner,
                   scraper, runs, progress_file, scraped_products,
                   scraped_categories, last_offset, offset, retries, remote,
                   completed_earlier, prev_output, prev_pc, auth_raised>>

\* AHScraper.scrape after the loops: the only save_progress.
AHFinal ==
    /\ scraper = "AHScraper" /\ pc = "final"
    /\ progress_file' = AHProgress(scraped_ids)
    /\ pc' = "done"
    /\ UNCHANGED <<connector, plus_files, token, plus_locals, runner,
                   scraper, runs, output_file, object, remote, history>>

\* -------------------------------------------------------------- AldiScraper
\* save_progress writes {"scraped_products": [...], "scraped_categories": [...]}.
AldiProgress(seen, cats) ==
    [kind |-> "json", scraped_products |-> seen, scraped_categories |-> cats]

\* new_products = [p for p in articles if p.get("articleId") not in self.scraped_products]
AldiNewProducts(articles, seen) ==
    SelectSeq(articles, LAMBDA p : p \notin seen)

\* AldiScraper.__init__: the output file is emptied, then the progress file
\* is loaded; a JSONDecodeError is caught.
AldiInit ==
    /\ scraper = "AldiScraper" /\ pc = "construct"
    /\ output_file' = JsonList(<<>>)
    /\ scraped_products' = IF progress_file.kind = "json"
                           THEN progress_file.scraped_products ELSE {}
    /\ scraped_categories' = IF progress_file.kind = "json"
                             THEN progress_file.scraped_categories ELSE {}
    /\ pc' = "list"
    /\ UNCHANGED <<connector, plus_files, token, plus_locals, runner,
                   scraper, runs, progress_file, scraped_ids, last_offset,
                   total_scraped_items, offset, page, part, retries, response,
                   remote, history>>

\* fetch_categories answers None (status not 200): scrape returns at once,
\* without save_progress.  Or its session.get raises, out of scrape.
AldiListFails ==
    /\ scraper = "AldiScraper" /\ pc = "list" /\ part = 1
    /\ pc' \in {"done", "raised"}
    /\ UNCHANGED <<connector, plus_files, token, plus_locals, runner,
                   scraper, runs, files, object, remote, history>>

\* AldiScraper.scrape reaches the next category: scrape_category up to
\* fetch_products.  A category may lack its id (NoId).
AldiCategory ==
    /\ scraper = "AldiScraper" /\ pc = "list"
    /\ \E n \in PartitionNames \cup {NoId} :
        /\ Lists(part, n)
        /\ IF n = NoId \/ n \in scraped_categories
           THEN \* "Category missing ID" or "already processed": return
                part' = part + 1 /\ pc' = "list"
           ELSE part' = part /\ pc' = "fetch"
    /\ UNCHANGED <<connector, plus_files, token, plus_locals, runner,
                   scraper, runs, files, scraped_products, scraped_ids,
                   scraped_categories, last_offset, total_scraped_items, offset,
                   page, retries, response, history>>

\* AldiScraper.scrape is past the last category.
AldiListEnd ==
    /\ scraper = "AldiScraper" /\ pc = "list"
    /\ ListEnds(part)
    /\ pc' = "final"
    /\ UNCHANGED <<connector, plus_files, token, plus_locals, runner,
                   scraper, runs, files, object, history>>

\* AldiScraper.fetch_products: the one request of a category.
AldiFetch ==
    /\ scraper = "AldiScraper" /\ pc = "fetch"
    /\ \E r \in Answers(part, 1) \ {TimeoutResponse} :
        /\ Asked(part, 1, r)
        /\ IF r.kind = "ok"
           THEN response' = r /\ pc' = "process" /\ UNCHANGED part
           ELSE IF r.kind = "transport"
           THEN \* session.get raises out of fetch_products and scrape
                pc' = "raised" /\ UNCHANGED <<part, response>>
           ELSE \* None: "No products found for category": return
                part' = part + 1 /\ pc' = "list" /\ UNCHANGED response
    /\ UNCHANGED <<connector, plus_files, token, plus_locals, runner,
                   scraper, runs, files, scraped_products, scraped_ids,
                   scraped_categories, last_offset, total_scraped_items, offset,
                   page, retries, listing, history>>

\* AldiScraper.scrape_category after fetch_products.
AldiProcess ==
    /\ scraper = "AldiScraper" /\ pc = "process"
    /\ LET articles == response.products
           new_products == AldiNewProducts(articles, scraped_products)
       IN IF new_products = <<>>
          THEN \* no products, no articles or no new products: return
               /\ part' = part + 1
               /\ pc' = "list"
               /\ UNCHANGED <<output_file, scraped_products, scraped_categories,
                              total_scraped_items, completed>>
          ELSE IF WriteRaises(output_file, new_products)
          THEN \* JSONDecodeError raises out of scrape
               /\ pc' = "raised"
               /\ UNCHANGED <<output_file, scraped_products, scraped_categories,
                              total_scraped_items, part, completed>>
          ELSE /\ output_file' = WriteProducts(output_file, new_products)
               /\ scraped_products' =
                      scraped_products \cup KeysBeforeNoId(new_products)
               /\ IF HasNoId(new_products)
                  THEN \* KeyError raises out of scrape
                       /\ pc' = "raised"
                       /\ UNCHANGED <<scraped_categories, total_scraped_items,
                                      part, completed>>
                  ELSE /\ scraped_categories' =
                              scraped_categories \cup {NameOf(part)}
                       /\ completed' = completed \cup {NameOf(part)}
                       /\ total_scraped_items' =
                              total_scraped_items + Len(new_products)
                       /\ part' = part + 1
                       /\ pc' = "list"
    /\ response' = NoResponse
    /\ UNCHANGED <<connector, plus_files, token, plus_locals, runner,
                   scraper, runs, progress_file, scraped_ids, last_offset,
                   offset, page, retries, remote, completed_earlier,
                   prev_output, prev_pc, auth_raised>>

\* AldiScraper.scrape after the loop: the only save_progress.
AldiFinal ==
    /\ scraper = "AldiScraper" /\ pc = "final"
    /\ progress_file' = AldiProgress(scraped_products, scraped_categories)
    /\ pc' = "done"
    /\ UNCHANGED <<connector, plus_files, token, plus_locals, runner,
                   scraper, runs, output_file, object, remote, history>>

\* ----------------------------------------------------- EnhancedJumboScraper
\* save_progress writes {"scraped_products": [...]}.
EnhancedProgress(seen) == [kind |-> "json", scraped_products |-> seen]

\* The loop of scrape_category over the products of a page: a product is
\* taken when it has an id that is not in scraped_products, and its id is
\* added at once.
RECURSIVE DetailedProducts(_, _)
DetailedProducts(products, seen) ==
    IF products = <<>> THEN <<>>
    ELSE IF Head(products) # NoId /\ Head(products) \notin seen
         THEN <<Head(products)>>
              \o DetailedProducts(Tail(products), seen \cup {Head(products)})
         ELSE DetailedProducts(Tail(products), seen)

\* save_products: the file's list ([] when the file is missing or holds no
\* JSON), extended, written with open(.., "w").
SaveProducts(f, products) == JsonList(FileRecords(f) \o products)

\* EnhancedJumboScraper.__init__ and load_progress; a JSONDecodeError is caught.
EnhancedInit ==
    /\ scraper = "EnhancedJumboScraper" /\ pc = "construct"
    /\ scraped_products' = IF progress_file.kind = "json"
                           THEN progress_file.scraped_products ELSE {}
    /\ pc' = "list"
    /\ UNCHANGED <<connector, plus_files, token, plus_locals, runner,
                   scraper, runs, files, scraped_ids, scraped_categories,
                   last_offset, total_scraped_items, offset, page, part, retries,
                   response, remote, history>>

\* get_categories raises (raise_for_status) out of scrape.
EnhancedListError ==
    /\ scraper = "EnhancedJumboScraper" /\ pc = "list" /\ part = 1
    /\ pc' = "raised"
    /\ UNCHANGED <<connector, plus_files, token, plus_locals, runner,
                   scraper, runs, files, object, remote, history>>

\* scrape_all_products reaches the next category: scrape_category starts.
\* The scraper keeps nothing by category, so the categories are told apart
\* by their place in the list alone.  A category may lack a key (NoId):
\* category['title'] raises KeyError before scrape_category is called, and
\* category["id"] raises it in scrape_category after offset = 0.
EnhancedCategory ==
    /\ scraper = "EnhancedJumboScraper" /\ pc = "list"
    /\ \E n \in {MaxKey + part, NoId} :
        /\ Lists(part, n)
        /\ IF n = NoId
           THEN pc' = "raised" /\ page' \in {page, 0}
           ELSE pc' = "fetch" /\ page' = 0
    /\ UNCHANGED <<connector, plus_files, token, plus_locals, runner,
                   scraper, runs, files, scraped_products, scraped_ids,
                   scraped_categories, last_offset, total_scraped_items, offset,
                   part, retries, response, history>>

\* scrape_all_products is past the last category; nothing is saved here.
EnhancedListEnd ==
    /\ scraper = "EnhancedJumboScraper" /\ pc = "list"
    /\ ListEnds(part)
    /\ pc' = "done"
    /\ UNCHANGED <<connector, plus_files, token, plus_locals, runner,
                   scraper, runs, files, object, history>>

\* scrape_category: the request of the page at the current offset.
EnhancedFetch ==
    /\ scraper = "EnhancedJumboScraper" /\ pc = "fetch"
    /\ \E r \in Answers(part, page + 1) \ {TimeoutResponse} :
        /\ Asked(part, page + 1, r)
        /\ IF r.kind = "ok"
           THEN response' = r /\ pc' = "process" /\ UNCHANGED part
           ELSE IF r.kind = "transport"
           THEN \* session.get is outside the try: it raises out of scrape
                pc' = "raised" /\ UNCHANGED <<part, response>>
           ELSE \* raise_for_status is caught: return 0
                part' = part + 1 /\ pc' = "list" /\ UNCHANGED response
    /\ UNCHANGED <<connector, plus_files, token, plus_locals, runner,
                   scraper, runs, files, scraped_products, scraped_ids,
                   scraped_categories, last_offset, total_scraped_items, offset,
                   page, retries, listing, history>>

\* scrape_category from the response body to save_products.
EnhancedProcess ==
    /\ scraper = "EnhancedJumboScraper" /\ pc = "process"
    /\ LET products == response.products
           detailed_products == DetailedProducts(products, scraped_products)
       IN IF products = <<>>
          THEN \* "No products found": break
               /\ part' = part + 1
               /\ pc' = "list"
               /\ UNCHANGED <<output_file, scraped_products, page>>
          ELSE /\ scraped_products' = scraped_products \cup Ids(detailed_products)
               /\ IF detailed_products # <<>>
                  THEN /\ output_file' = SaveProducts(output_file, detailed_products)
                       /\ pc' = "save"
                       /\ UNCHANGED page
                  ELSE \* offset += len(products)
                       /\ page' = page + 1
                       /\ pc' = "fetch"
                       /\ UNCHANGED output_file
               /\ UNCHANGED part
    /\ response' = NoResponse
    /\ UNCHANGED <<connector, plus_files, token, plus_locals, runner,
                   scraper, runs, progress_file, scraped_ids, scraped_categories,
                   last_offset, total_scraped_items, offset, retries, remote,
                   history>>

\* scrape_category: save_progress after save_products, then the next offset.
EnhancedSave ==
    /\ scraper = "EnhancedJumboScraper" /\ pc = "save"
    /\ progress_file' = EnhancedProgress(scraped_products)
    /\ page' = page + 1
    /\ pc' = "fetch"
    /\ UNCHANGED <<connector, plus_files, token, plus_locals, runner,
                   scraper, runs, output_file, scraped_products, scraped_ids,
                   scraped_categories, last_offset, total_scraped_items, offset,
                   part, retries, response, remote, history>>

\* ------------------------------------------------------------- plus_scraper
\* Most pages a category of plus has.
MaxPlusPages == 2

\* The slugs the category list of plus may hold.  A slug is any text the API
\* sends: it may be the base name of another shop's output file or of one
\* of the two files plus_scraper opens by a fixed name, and it may hold a
\* path separator.
PlusSlugs == {"zuivel", "ah_products", "plus_products", "top_level_categories",
              "a/b"}

\* The slugs whose file would lie in a directory below OUTPUT_DIR, which
\* nothing creates: open(category_file, "w") raises FileNotFoundError.
InSubdirectory == {"a/b"}

\* Most products on one page of a category of plus.
MaxPlusPageLen == 1

\* What the API may answer when page i of category p is asked for: what it
\* answered before, or a page of products or a failure of the request.
PlusAnswers(p, i) ==
    IF PageAt(p, i) # NoResponse THEN {PageAt(p, i)}
    ELSE {ErrorResponse, TransportError}
         \cup {OkPage(l) : l \in UNION {[1..n -> Keys] : n \in 0..MaxPlusPageLen}}

\* os.path.join(OUTPUT_DIR, f"{slug}.json")
CategoryFile(slug) == "data/" \o slug \o ".json"

\* CATEGORIES_FILE and ALL_PRODUCTS_FILE
CATEGORIES_FILE == "data/top_level_categories.json"
ALL_PRODUCTS_FILE == "data/plus_products.json"

\* The file on disk that os.path.join(OUTPUT_DIR, f"{slug}.json") names.
PlusFile(slug) ==
    IF CategoryFile(slug) = ALL_PRODUCTS_FILE THEN output_file
    ELSE IF CategoryFile(slug) = CATEGORIES_FILE THEN categories_file
    ELSE category_files[slug]

\* The file that the slug names becomes f; the other files stay.
PlusFileBecomes(slug, f) ==
    IF CategoryFile(slug) = ALL_PRODUCTS_FILE
    THEN output_file' = f /\ UNCHANGED <<categories_file, category_files>>
    ELSE IF CategoryFile(slug) = CATEGORIES_FILE
    THEN categories_file' = f /\ UNCHANGED <<output_file, category_files>>
    ELSE /\ category_files' = [category_files EXCEPT ![slug] = f]
         /\ UNCHANGED <<output_file, categories_file>>

\* The lists of n slugs: extract_top_level_categories removes no duplicate.
SlugLists(n) == [1..n -> PlusSlugs]

\* No file of plus_scraper is on disk.
NoPlusFiles ==
    /\ categories_file = Absent
    /\ category_files = [s \in PlusSlugs |-> Absent]

\* The module is imported: os.makedirs(OUTPUT_DIR, exist_ok=True).
PlusImport ==
    /\ scraper = "plus_scraper" /\ pc = "construct"
    /\ pc' = "token"
    /\ UNCHANGED <<connector, plus_files, token, plus_locals, runner, scraper,
                   runs, files, object, remote, history>>

\* scrape_plus_data up to its test of version_token: fetch_version_token
\* returns the token, or None on any exception.
PlusToken ==
    /\ scraper = "plus_scraper" /\ pc = "token"
    /\ \/ token' = "token" /\ pc' = "categories"
       \/ \* "Failed to fetch version token. Exiting."
          token' = token /\ pc' = "done"
    /\ UNCHANGED <<connector, plus_files, plus_locals, runner, scraper, runs,
                   files, object, remote, history>>

\* fetch_categories and extract_top_level_categories give the top-level
\* categories: the API's list, chosen when it is first asked for.
PlusListing ==
    IF listing = "open"
    THEN /\ \E n \in 0..MaxPartitions : \E slugs \in SlugLists(n) :
            \E totals \in [1..n -> 0..MaxPlusPages] :
               catalog' = [i \in 1..n |-> [name |-> slugs[i],
                                           pages |-> <<>>,
                                           total |-> totals[i]]]
         /\ listing' = "closed"
    ELSE UNCHANGED remote

\* scrape_plus_data from fetch_categories to the start of the category loop:
\* it returns when fetch_categories gives nothing, else it writes the
\* top-level categories to CATEGORIES_FILE.
PlusCategories ==
    /\ scraper = "plus_scraper" /\ pc = "categories"
    /\ \/ \* "Failed to fetch categories. Exiting."
          /\ pc' = "done"
          /\ UNCHANGED <<categories_file, all_products, part, remote>>
       \/ /\ PlusListing
          /\ categories_file' = JsonList([i \in DOMAIN catalog' |-> catalog'[i].name])
          /\ all_products' = <<>>
          /\ part' = 1
          /\ pc' = "category"
    /\ UNCHANGED <<connector, category_files, token, category_products,
                   total_pages, runner, scraper, runs, files, scraped_products,
                   scraped_ids, scraped_categories, last_offset,
                   total_scraped_items, offset, page, retries, response,
                   history>>

\* The category loop of scrape_plus_data reaches a category: it is skipped
\* when its file exists, else scrape_category_products starts on it.  Past
\* the last category the loop ends.
PlusCategory ==
    /\ scraper = "plus_scraper" /\ pc = "category"
    /\ IF part > Len(catalog)
       THEN /\ pc' = "save"
            /\ UNCHANGED <<part, page, category_products, total_pages>>
       ELSE IF PlusFile(NameOf(part)).kind # "absent"
       THEN /\ part' = part + 1
            /\ pc' = "category"
            /\ UNCHANGED <<page, category_products, total_pages>>
       ELSE /\ category_products' = <<>>
            /\ page' = 1
            /\ total_pages' = 1
            /\ pc' = "fetch"
            /\ UNCHANGED part
    /\ UNCHANGED <<connector, plus_files, token, all_products, runner, scraper,
                   runs, files, scraped_products, scraped_ids,
                   scraped_categories, last_offset, total_scraped_items,
                   offset, retries, response, remote, history>>

\* One turn of the page loop of scrape_category_products: the page is
\* added to the category's products, or any exception breaks the loop.
PlusFetch ==
    /\ scraper = "plus_scraper" /\ pc = "fetch"
    /\ \E r \in PlusAnswers(part, page) :
        /\ Asked(part, page, r)
        /\ IF r.kind = "ok"
           THEN /\ category_products' = category_products \o r.products
                /\ total_pages' = catalog[part].total
                /\ page' = page + 1
                /\ pc' = IF page + 1 <= catalog[part].total
                         THEN "fetch" ELSE "write"
           ELSE /\ pc' = "write"
                /\ UNCHANGED <<category_products, total_pages, page>>
    /\ UNCHANGED <<connector, plus_files, token, all_products, runner, scraper,
                   runs, files, scraped_products, scraped_ids,
                   scraped_categories, last_offset, total_scraped_items,
                   offset, part, retries, response, listing, history>>

\* The end of scrape_category_products and its return to the category loop:
\* the category's file is written with what was fetched, and the caller
\* extends all_products with it.  When the file cannot be opened the
\* exception leaves scrape_plus_data.
PlusWrite ==
    /\ scraper = "plus_scraper" /\ pc = "write"
    /\ IF NameOf(part) \in InSubdirectory
       THEN /\ pc' = "raised"
            /\ UNCHANGED <<output_file, plus_files, all_products, part>>
       ELSE /\ PlusFileBecomes(NameOf(part), JsonList(category_products))
            /\ all_products' = all_products \o category_products
            /\ part' = part + 1
            /\ pc' = "category"
    /\ UNCHANGED <<connector, token, category_products, total_pages, runner,
                   scraper, runs, progress_file, scraped_products,
                   scraped_ids, scraped_categories, last_offset,
                   total_scraped_items, offset, page, retries, response,
                   remote, history>>

\* scrape_plus_data writes all_products to ALL_PRODUCTS_FILE.
PlusSave ==
    /\ scraper = "plus_scraper" /\ pc = "save"
    /\ output_file' = JsonList(all_products)
    /\ part' = 1
    /\ pc' = "cleanup"
    /\ UNCHANGED <<connector, plus_files, token, plus_locals, runner, scraper,
                   runs, progress_file, scraped_products, scraped_ids,
                   scraped_categories, last_offset, total_scraped_items,
                   offset, page, retries, response, remote, history>>

\* One turn of the cleanup loop: the category's file is removed.  Past the
\* last category scrape_plus_data returns.
PlusCleanup ==
    /\ scraper = "plus_scraper" /\ pc = "cleanup"
    /\ IF part > Len(catalog)
       THEN /\ pc' = "done"
            /\ UNCHANGED <<part, output_file, plus_files>>
       ELSE /\ PlusFileBecomes(NameOf(part), Absent)
            /\ part' = part + 1
            /\ pc' = "cleanup"
    /\ UNCHANGED <<connector, token, plus_locals, runner, scraper, runs,
                   progress_file, scraped_products, scraped_ids,
                   scraped_categories, last_offset, total_scraped_items,
                   offset, page, retries, response, remote, history>>

\* ----------------------------------------------------- checkjumbo.JumboConnector
\* Most values of the page and size arguments, and of products.total.
MaxPage == 30
MaxSize == 30
MaxTotal == 61

\* The literal of the pagination test, and the default of the size argument.
PaginationLimit == 30
DefaultSize == 30

Max(a, b) == IF a >= b THEN a ELSE b

\* math.ceil(total / size)
Ceil(t, sz) == (t + sz - 1) \div sz

\* if (page + 1 * size) > 30: raise PaginationLimitReached
LimitReached(p, sz) == (p + 1 * sz) > PaginationLimit

\* params={"offset": page * size, "limit": size, ...}
Request(p, sz) == [offset |-> p * sz, limit |-> sz]

\* size = kwargs.pop('size', None) or 30
SizeOrDefault == IF size = 0 THEN DefaultSize ELSE size

\* response['products']['total'] of the body of page 0: a number, or a body
\* without the key, with null or with a text in its place.
Total(n) == [kind |-> "number", value |-> n]
MalformedTotals == {[kind |-> k] : k \in {"missing", "null", "text"}}

\* What response['products']['total'] / size raises on a total that is not
\* a number: KeyError('total') without the key, TypeError on None or str.
TotalError(t) == IF t.kind = "missing" THEN "KeyError" ELSE "TypeError"

\* No call of a JumboConnector.
NoConnector ==
    /\ connector_pc = "none"
    /\ requested_page = 0
    /\ size = 0
    /\ total = Total(0)
    /\ yielded = <<>>

\* What ends search_products after its request is made, other than the
\* return of the body: requests.get raises (ConnectionError),
\* raise_for_status on an answer that is not ok (HTTPError), or
\* response.json() on a body that is not JSON (ValueError).
RequestErrors == {"ConnectionError", "HTTPError", "ValueError"}

\* What ends search_all_products after a request, other than a yield: an
\* exception of search_products, none of which it catches here, or
\* `yield from response['products']['data']` on a body without a key
\* (KeyError) or with products or data of another type (TypeError).
SearchAllErrors == RequestErrors \cup {"KeyError", "TypeError"}

\* search_products(page=requested_page, size=size), the API answering.
SearchProducts ==
    /\ connector_pc = "search_products"
    /\ IF LimitReached(requested_page, size)
       THEN connector_pc' = "PaginationLimitReached" /\ UNCHANGED yielded
       ELSE \/ /\ connector_pc' = "returned"
               /\ yielded' = <<Request(requested_page, size)>>
            \/ /\ connector_pc' \in RequestErrors
               /\ UNCHANGED yielded
    /\ UNCHANGED <<requested_page, size, total, scraper_state, runner>>

\* search_all_products up to its first yield: page 0, asked for with size.
SearchAllFirst ==
    /\ connector_pc = "search_all_products"
    /\ IF LimitReached(0, SizeOrDefault)
       THEN /\ connector_pc' = "PaginationLimitReached"
            /\ UNCHANGED <<yielded, requested_page>>
       ELSE \/ /\ yielded' = <<Request(0, SizeOrDefault)>>
               /\ requested_page' = 1
               /\ connector_pc' = "paging"
            \/ /\ connector_pc' \in SearchAllErrors
               /\ UNCHANGED <<yielded, requested_page>>
    /\ UNCHANGED <<size, total, scraper_state, runner>>

\* search_all_products after the yield of page 0.  The head of the loop
\* computes range(1, ceil(total / size)) and raises on a total that is not
\* a number.  Else one turn of the loop: the page is asked for without
\* size, so with the default of search_products.
SearchAllNext ==
    /\ connector_pc = "paging"
    /\ IF total.kind # "number"
       THEN /\ connector_pc' = TotalError(total)
            /\ UNCHANGED <<yielded, requested_page>>
       ELSE IF requested_page < Ceil(total.value, SizeOrDefault)
       THEN IF LimitReached(requested_page, DefaultSize)
            THEN \* "Pagination limit reached, capping response"
                 /\ connector_pc' = "capped"
                 /\ UNCHANGED <<yielded, requested_page>>
            ELSE \/ /\ yielded' = Append(yielded,
                                         Request(requested_page, DefaultSize))
                    /\ requested_page' = requested_page + 1
                    /\ UNCHANGED connector_pc
                 \/ /\ connector_pc' \in SearchAllErrors
                    /\ UNCHANGED <<yielded, requested_page>>
       ELSE /\ connector_pc' = "exhausted"
            /\ UNCHANGED <<yielded, requested_page>>
    /\ UNCHANGED <<size, total, scraper_state, runner>>

\* ------------------------------------------------------------- the process
Running == pc \notin {"done", "raised", "down"}

\* The scraper object is gone with its process.
NoObject ==
    /\ scraped_products' = {}
    /\ scraped_ids' = {}
    /\ scraped_categories' = {}
    /\ last_offset' = 0
    /\ total_scraped_items' = 0
    /\ offset' = 0
    /\ page' = 0
    /\ part' = 1
    /\ retries' = RETRIES
    /\ response' = NoResponse
    /\ token' = "none"
    /\ all_products' = <<>>
    /\ category_products' = <<>>
    /\ total_pages' = 1

\* The process is killed between two file operations.
Kill ==
    /\ Running
    /\ pc' = "down"
    /\ NoObject
    /\ UNCHANGED <<connector, plus_files, runner, scraper,
                   runs, files, remote, history>>

\* The step the run is about to take writes a new text to the output file.
WritesOutput ==
    \/ /\ scraper = "JumboScraper" /\ pc = "construct"
       /\ progress_file.kind # "torn"
       /\ progress_file.kind = "json" => progress_file.last_offset = 0
    \/ /\ scraper = "JumboScraper" /\ pc = "process"
       /\ JumboNewProducts(response.products, scraped_products) # <<>>
       /\ output_file.kind = "json"
    \/ /\ scraper = "AHScraper" /\ pc = "process"
       /\ ~HasNoId(response.products)
       /\ output_file.kind # "torn"
       /\ \/ AHNewProducts(response.products, scraped_ids) # <<>>
          \/ response.products # <<>> /\ output_file.kind = "absent"
    \/ scraper = "AldiScraper" /\ pc = "construct"
    \/ /\ scraper = "AldiScraper" /\ pc = "process"
       /\ AldiNewProducts(response.products, scraped_products) # <<>>
       /\ output_file.kind = "json"
    \/ /\ scraper = "EnhancedJumboScraper" /\ pc = "process"
       /\ DetailedProducts(response.products, scraped_products) # <<>>
    \/ scraper = "plus_scraper" /\ pc = "save"
    \/ /\ scraper = "plus_scraper" /\ pc = "write"
       /\ CategoryFile(NameOf(part)) = ALL_PRODUCTS_FILE

\* What a kill inside the write leaves of the output file: open(.., "w") has
\* emptied it, or json.dump has written a part of the longer new text.
\* AHScraper.write_products first creates a missing file with [] and then
\* rewrites it: a kill between the two leaves the empty list.
KilledInWrite ==
    {Torn} \cup (IF scraper = "AHScraper" /\ output_file.kind = "absent"
                 THEN {JsonList(<<>>)} ELSE {})

\* The process is killed while it writes the output file.
KillInWrite ==
    /\ WritesOutput
    /\ output_file' \in KilledInWrite
    /\ pc' = "down"
    /\ NoObject
    /\ UNCHANGED <<connector, plus_files, runner, scraper,
                   runs, progress_file, remote, history>>

\* plus_scraper is killed while it writes CATEGORIES_FILE (the categories
\* were fetched) or the file of the category it has fetched: open(.., "w")
\* has created the file, empty or partly written.
KillInPlusWrite ==
    /\ scraper = "plus_scraper"
    /\ \/ /\ pc = "categories"
          /\ PlusListing
          /\ categories_file' = Torn
          /\ UNCHANGED <<output_file, category_files>>
       \/ /\ pc = "write"
          /\ NameOf(part) \notin InSubdirectory
          /\ PlusFileBecomes(NameOf(part), Torn)
          /\ UNCHANGED remote
    /\ pc' = "down"
    /\ NoObject
    /\ UNCHANGED <<connector, runner, scraper, runs, progress_file, history>>

\* The step the run is about to take is save_progress.
SavesProgress ==
    \/ scraper = "JumboScraper" /\ pc \in {"advance", "final"}
    \/ scraper = "AHScraper" /\ pc = "final"
    \/ scraper = "AldiScraper" /\ pc = "final"
    \/ scraper = "EnhancedJumboScraper" /\ pc = "save"

\* The process is killed inside save_progress, after open(.., "w") has
\* emptied the progress file.
KillInSave ==
    /\ SavesProgress
    /\ progress_file' = Torn
    /\ pc' = "down"
    /\ NoObject
    /\ UNCHANGED <<connector, plus_files, runner, scraper,
                   runs, output_file, remote, history>>

\* The next run of the same scraper starts: a new process, a new object.
Restart ==
    /\ ~Running
    /\ runs < MaxRuns
    /\ runs' = runs + 1
    /\ prev_output' = output_file
    /\ prev_pc' = pc
    /\ auth_raised' = FALSE
    /\ completed_earlier' = completed_earlier \cup completed
    /\ completed' = {}
    /\ pc' = "construct"
    /\ NoObject
    /\ UNCHANGED <<connector, plus_files, runner, scraper,
                   files, remote>>

\* ------------------------------------------------------------ scraper_runner
\* SHOPS = ['ah', 'jumbo', 'aldi', 'plus']
SHOPS == <<"ah", "jumbo", "aldi", "plus">>
ShopNames == {SHOPS[i] : i \in DOMAIN SHOPS}

\* Most command-line arguments after the program name.
MaxArgs == 2
\* Most elements of a list run_scrapers_parallel is called with directly.
MaxShops == 2
\* Most records a shop module's scrape() returns.
MaxProduced == 1

\* Command-line arguments, and arg.lower() on them.
Args == {"sequential", "SEQUENTIAL", "AH", "jumbo", "bogus"}
Lower(arg) ==
    CASE arg = "SEQUENTIAL" -> "sequential"
      [] arg = "AH" -> "ah"
      [] OTHER -> arg

\* The lists of at most n elements of S.
ListsOver(S, n) == UNION {[1..k -> S] : k \in 0..n}

\* The for loop of main over sys.argv[1:], from the defaults.
RECURSIVE ParseArgs(_, _)
ParseArgs(args, parsed) ==
    IF args = <<>> THEN parsed
    ELSE LET arg == Lower(Head(args))
         IN ParseArgs(Tail(args),
                IF arg = "sequential"
                THEN [parsed EXCEPT !.mode = "sequential"]
                ELSE IF arg \in ShopNames
                THEN [parsed EXCEPT !.shops_to_scrape = <<arg>>]
                ELSE parsed)

Defaults == [mode |-> "parallel", shops_to_scrape |-> SHOPS]

\* A mode that no argument changes.
ParallelMode(args) == "parallel"

\* mode and shops_to_scrape of main after the argument loop.
Mode(args) == ParseArgs(args, Defaults).mode
ShopsToScrape(args) == ParseArgs(args, Defaults).shops_to_scrape

\* What importlib.import_module(f'{shop}_scraper') finds: no module, a
\* module whose import ends the process (sys.exit, os._exit or
\* KeyboardInterrupt, none of them an Exception), a module without the
\* attribute 'scrape', or a module whose scrape(), run to its end, raises
\* or returns a list of `produced` records.
NotLookedUp == [kind |-> "unknown", produced |-> 0]
Modules ==
    {[kind |-> k, produced |-> 0] :
        k \in {"missing", "exits", "no_scrape", "raises"}}
    \cup {[kind |-> "returns", produced |-> n] : n \in 0..MaxProduced}

\* The return value of run_single_scraper: None or a list, kept by its length.
NoneResult == [kind |-> "None", len |-> 0]
ListResult(n) == [kind |-> "list", len |-> n]

\* run_single_scraper(shop), for the module that import_module finds.
\* ImportError and a missing 'scrape' return None.  Otherwise line 42
\* evaluates the name asyncio, which scraper_runner never imports: NameError
\* before scrape_func is called, caught by `except Exception`, and None.
RunSingleScraper(module) ==
    IF module.kind = "missing" THEN NoneResult
    ELSE IF module.kind = "no_scrape" THEN NoneResult
    ELSE NoneResult

\* The entry safe_scrape stores for a return value of run_single_scraper.
Entry(shop_results) ==
    IF shop_results # NoneResult
    THEN [total_products |-> shop_results.len, status |-> "success"]
    ELSE [total_products |-> 0, status |-> "failed"]

\* result_dict[shop] = entry
Store(dict, shop, entry) ==
    [s \in DOMAIN dict \cup {shop} |-> IF s = shop THEN entry ELSE dict[s]]

EmptyDict == [s \in {} |-> Entry(NoneResult)]

Unstarted == [pc |-> "unstarted", shop_results |-> NoneResult]
Started == Cardinality({i \in DOMAIN worker : worker[i].pc # "unstarted"})

\* p.join() returns for process i.
Joinable(i) == worker[i].pc = "ended"

\* The scraper classes are not part of a run of scraper_runner.
scrapers == <<scraper, pc, runs, output_file, progress_file, scraped_products,
              scraped_ids, scraped_categories, last_offset,
              total_scraped_items, offset, page, part, retries, response,
              catalog, listing, completed, completed_earlier, prev_output,
              prev_pc, auth_raised, token, plus_locals, plus_files,
              connector>>

\* main, to the call of run_scrapers_parallel or to NotImplementedError.
Main ==
    /\ runner_pc = "main"
    /\ mode' = Mode(argv)
    /\ LET shops_to_scrape == ShopsToScrape(argv)
           invalid_shops == {shops_to_scrape[i] : i \in DOMAIN shops_to_scrape}
                                \ ShopNames
       IN IF invalid_shops # {}
          THEN runner_pc' = "exit" /\ UNCHANGED <<shops, worker>>
          ELSE IF mode' = "parallel"
          THEN /\ runner_pc' = "parallel"
               /\ shops' = shops_to_scrape
               /\ worker' = [i \in DOMAIN shops_to_scrape |-> Unstarted]
          ELSE runner_pc' = "raised" /\ UNCHANGED <<shops, worker>>
    /\ UNCHANGED <<argv, modules, results, joined, summary, scrapers>>

\* run_scrapers_parallel: p.start() for the next shop of the list.
ParallelStart ==
    /\ runner_pc = "parallel"
    /\ Started < Len(shops)
    /\ worker' = [worker EXCEPT ![Started + 1].pc = "running"]
    /\ UNCHANGED <<argv, mode, shops, modules, results, joined, summary,
                   runner_pc, scrapers>>

\* safe_scrape in process i: run_single_scraper(shop) returns, or the
\* import in it ends the process: `except Exception` does not catch what
\* ends it, and safe_scrape stores no entry.
SafeScrapeRun(i) ==
    /\ worker[i].pc = "running"
    /\ \E m \in Modules :
          /\ modules[shops[i]] \in {NotLookedUp, m}
          /\ modules' = [modules EXCEPT ![shops[i]] = m]
          /\ worker' = [worker EXCEPT ![i] =
                 IF m.kind = "exits"
                 THEN [pc |-> "ended", shop_results |-> NoneResult]
                 ELSE [pc |-> "returned",
                       shop_results |-> RunSingleScraper(m)]]
    /\ UNCHANGED <<argv, mode, shops, results, joined, summary, runner_pc,
                   scrapers>>

\* safe_scrape in process i: the entry goes into the manager dict, and the
\* process ends.
SafeScrapeStore(i) ==
    /\ worker[i].pc = "returned"
    /\ results' = Store(results, shops[i], Entry(worker[i].shop_results))
    /\ worker' = [worker EXCEPT ![i].pc = "ended"]
    /\ UNCHANGED <<argv, mode, shops, modules, joined, summary, runner_pc,
                   scrapers>>

\* run_scrapers_parallel: p.join() returns for the next process of the list.
ParallelJoin ==
    /\ runner_pc = "parallel"
    /\ Started = Len(shops)
    /\ joined < Len(shops)
    /\ Joinable(joined + 1)
    /\ joined' = joined + 1
    /\ UNCHANGED <<argv, mode, shops, modules, worker, results, summary,
                   runner_pc, scrapers>>

\* run_scrapers_parallel: return dict(results)
ParallelReturn ==
    /\ runner_pc = "parallel"
    /\ Started = Len(shops)
    /\ joined = Len(shops)
    /\ summary' = results
    /\ runner_pc' = "returned"
    /\ UNCHANGED <<argv, mode, shops, modules, worker, results, joined,
                   scrapers>>

\* No run of scraper_runner: a scraper class is run by its own module.
NoRunner ==
    /\ argv = <<>>
    /\ mode = "parallel"
    /\ shops = <<>>
    /\ modules = [s \in ShopNames |-> NotLookedUp]
    /\ worker = <<>>
    /\ results = EmptyDict
    /\ joined = 0
    /\ summary = EmptyDict
    /\ runner_pc = "none"

Scrapers == {"JumboScraper", "AHScraper", "AldiScraper", "EnhancedJumboScraper"}

\* JumboScraper has one partition, the whole catalogue; the others list theirs.
NothingAsked(s) ==
    IF s = "JumboScraper" THEN << [name |-> NoId, pages |-> <<>>] >> ELSE <<>>

\* The first run starts: no file on disk yet.
FirstRun ==
    /\ pc = "construct"
    /\ runs = 1
    /\ output_file = Absent
    /\ progress_file = Absent
    /\ scraped_products = {}
    /\ scraped_ids = {}
    /\ scraped_categories = {}
    /\ last_offset = 0
    /\ total_scraped_items = 0
    /\ offset = 0
    /\ page = 0
    /\ part = 1
    /\ retries = RETRIES
    /\ response = NoResponse
    /\ completed = {}
    /\ completed_earlier = {}
    /\ prev_output = Absent
    /\ prev_pc = "none"
    /\ auth_raised = FALSE
    /\ token = "none"
    /\ all_products = <<>>
    /\ category_products = <<>>
    /\ total_pages = 1

Init ==
    /\ scraper \in Scrapers
    /\ catalog = NothingAsked(scraper)
    /\ listing = IF scraper = "JumboScraper" THEN "closed" ELSE "open"
    /\ FirstRun
    /\ NoRunner
    /\ NoPlusFiles
    /\ NoConnector

JumboNext ==
    \/ JumboInit
    \/ JumboFetch
    \/ JumboProcess
    \/ JumboAdvance
    \/ JumboFinal

AHNext ==
    \/ AHInit
    \/ AHAuthenticate
    \/ AHSubcategory
    \/ AHListError
    \/ AHListEnd
    \/ AHFetch
    \/ AHProcess
    \/ AHFinal

AldiNext ==
    \/ AldiInit
    \/ AldiListFails
    \/ AldiCategory
    \/ AldiListEnd
    \/ AldiFetch
    \/ AldiProcess
    \/ AldiFinal

EnhancedNext ==
    \/ EnhancedInit
    \/ EnhancedListError
    \/ EnhancedCategory
    \/ EnhancedListEnd
    \/ EnhancedFetch
    \/ EnhancedProcess
    \/ EnhancedSave

ProcessNext ==
    \/ Kill
    \/ KillInWrite
    \/ KillInSave
    \/ Restart

Next == JumboNext \/ AHNext \/ AldiNext \/ EnhancedNext \/ ProcessNext

Spec == Init /\ [][Next]_vars

\* ------------------------------------------------------------- the scenario
\* The remote API of the scenario: one partition whose pages are
\* [1, 2], [2, 3] and then an empty page.
ScenarioPages == <<OkPage(<<1, 2>>), OkPage(<<2, 3>>), OkPage(<<>>)>>

ScenarioInit ==
    /\ scraper \in {"JumboScraper", "AHScraper"}
    /\ \E n \in PartitionNames :
          catalog = << [name |-> IF scraper = "JumboScraper" THEN NoId ELSE n,
                        pages |-> ScenarioPages] >>
    /\ listing = "closed"
    /\ FirstRun
    /\ NoRunner
    /\ NoPlusFiles
    /\ NoConnector

ScenarioNext == JumboNext \/ AHNext \/ ProcessNext

ScenarioSpec == ScenarioInit /\ [][ScenarioNext]_vars

\* --------------------------------------------------- a run of the runner
\* scraper_runner is started as a program (main reads argv), or
\* run_scrapers_parallel is called with a list of shops.  No scraper object
\* exists in the runner's process.
NoScraper ==
    /\ scraper = "none"
    /\ pc = "none"
    /\ runs = 0
    /\ output_file = Absent
    /\ progress_file = Absent
    /\ scraped_products = {}
    /\ scraped_ids = {}
    /\ scraped_categories = {}
    /\ last_offset = 0
    /\ total_scraped_items = 0
    /\ offset = 0
    /\ page = 0
    /\ part = 1
    /\ retries = RETRIES
    /\ response = NoResponse
    /\ catalog = <<>>
    /\ listing = "closed"
    /\ completed = {}
    /\ completed_earlier = {}
    /\ prev_output = Absent
    /\ prev_pc = "none"
    /\ auth_raised = FALSE
    /\ token = "none"
    /\ all_products = <<>>
    /\ category_products = <<>>
    /\ total_pages = 1

RunnerInit ==
    /\ NoScraper
    /\ NoPlusFiles
    /\ NoConnector
    /\ modules = [s \in ShopNames |-> NotLookedUp]
    /\ results = EmptyDict
    /\ joined = 0
    /\ summary = EmptyDict
    /\ mode = "parallel"
    /\ \/ /\ runner_pc = "main"
          /\ argv \in ListsOver(Args, MaxArgs)
          /\ shops = <<>>
          /\ worker = <<>>
       \/ /\ runner_pc = "parallel"
          /\ argv = <<>>
          /\ shops \in ListsOver(ShopNames, MaxShops)
          /\ worker = [i \in DOMAIN shops |-> Unstarted]

RunnerNext ==
    \/ Main
    \/ ParallelStart
    \/ \E i \in DOMAIN worker : SafeScrapeRun(i)
    \/ \E i \in DOMAIN worker : SafeScrapeStore(i)
    \/ ParallelJoin
    \/ ParallelReturn

RunnerSpec == RunnerInit /\ [][RunnerNext]_vars

\* ------------------------------------------------- a run of plus_scraper
\* plus_scraper is run as a program, killed and run again.
PlusInit ==
    /\ scraper = "plus_scraper"
    /\ catalog = <<>>
    /\ listing = "open"
    /\ FirstRun
    /\ NoRunner
    /\ NoPlusFiles
    /\ NoConnector

PlusNext ==
    \/ PlusImport
    \/ PlusToken
    \/ PlusCategories
    \/ PlusCategory
    \/ PlusFetch
    \/ PlusWrite
    \/ PlusSave
    \/ PlusCleanup
    \/ Kill
    \/ KillInWrite
    \/ KillInPlusWrite
    \/ Restart

PlusSpec == PlusInit /\ [][PlusNext]_vars

\* ------------------------------------- runs that start with authentication
\* AHScraper or plus_scraper over a remote catalogue of one partition.
AuthInit ==
    /\ \/ /\ scraper = "AHScraper"
          /\ \E n \in PartitionNames :
                catalog = << [name |-> n, pages |-> ScenarioPages] >>
       \/ /\ scraper = "plus_scraper"
          /\ \E slug \in PlusSlugs : \E k \in Keys :
                catalog = << [name |-> slug, pages |-> <<OkPage(<<k>>)>>,
                              total |-> 1] >>
    /\ listing = "closed"
    /\ FirstRun
    /\ NoRunner
    /\ NoPlusFiles
    /\ NoConnector

AuthNext == AHNext \/ PlusNext \/ KillInSave

AuthSpec == AuthInit /\ [][AuthNext]_vars

\* --------------------------------------------- a call of a JumboConnector
\* search_products is called with a page and a size, or search_all_products
\* with a size (0: none given) on a catalogue of `total` products.
ConnectorInit ==
    /\ NoScraper
    /\ NoRunner
    /\ NoPlusFiles
    /\ yielded = <<>>
    /\ \/ /\ connector_pc = "search_products"
          /\ requested_page \in 0..MaxPage
          /\ size \in 1..MaxSize
          /\ total = Total(0)
       \/ /\ connector_pc = "search_all_products"
          /\ requested_page = 0
          /\ size \in 0..MaxSize
          /\ total \in {Total(n) : n \in 0..MaxTotal} \cup MalformedTotals

ConnectorNext ==
    \/ SearchProducts
    \/ SearchAllFirst
    \/ SearchAllNext

ConnectorSpec == ConnectorInit /\ [][ConnectorNext]_vars

\* ------------------------------------------------------- JumboScraper alone
JumboOnlyInit == Init /\ scraper = "JumboScraper"

JumboOnlyNext == JumboNext \/ ProcessNext

SpecJumbo == JumboOnlyInit /\ [][JumboOnlyNext]_vars

\* --------------------------------------------------------------- reference
\* JumboScraper.scrape from offset 0 with nothing seen, never interrupted,
\* over the pages the API serves: the records the output file ends with.
RECURSIVE JumboUninterrupted(_, _, _)
JumboUninterrupted(pages, seen, written) ==
    IF pages = <<>> \/ Head(pages).kind # "ok" \/ Head(pages).products = <<>>
    THEN written
    ELSE LET new_products == JumboNewProducts(Head(pages).products, seen)
         IN IF HasNoId(new_products)
            THEN written \o new_products
            ELSE JumboUninterrupted(Tail(pages), seen \cup Ids(new_products),
                                    written \o new_products)

\* The keys the progress file holds as seen.
PersistedKeys ==
    IF progress_file.kind # "json" THEN {}
    ELSE IF scraper = "AHScraper" THEN progress_file.list
    ELSE progress_file.scraped_products

\* Every page the API has served so far.
ServedPages ==
    {catalog[p].pages[i] : <<p, i>> \in
        {x \in (1..Len(catalog)) \X (1..(MaxRecords + 1)) :
            x[2] <= Len(catalog[x[1]].pages)}}

\* No page the API has served holds a key twice.
InPageDuplicateFree == \A r \in ServedPages : NoDuplicateKey(r.products)

\* ------------------------------------------------------------------- claims
\* C1: in the first run, which starts with nothing seen and no output, no
\* product key occurs twice in the output file of JumboScraper, AHScraper or
\* EnhancedJumboScraper after any page step, whatever pages the API serves.
C1_NoKeyTwice ==
    (runs = 1 /\ scraper \in {"JumboScraper", "AHScraper", "EnhancedJumboScraper"})
        => NoDuplicateKey(FileRecords(output_file))

\* C2: with the pages [1, 2], [2, 3], [] and nothing on disk, a first run
\* that returns leaves the records 1, 2, 3 once each in the output file, the
\* keys 1, 2, 3 as the seen keys, in the object and in the progress file, and
\* the partition recorded as complete: AHScraper holds the subcategory name
\* in scraped_ids beside the keys, and JumboScraper holds the offset of the
\* empty page as last_offset.
C2_Scenario ==
    (runs = 1 /\ pc = "done") =>
        /\ output_file = JsonList(<<1, 2, 3>>)
        /\ scraper = "JumboScraper" =>
              /\ scraped_products = {1, 2, 3}
              /\ PageAt(1, last_offset \div limit + 1) = OkPage(<<>>)
              /\ progress_file = JumboProgress({1, 2, 3}, last_offset)
        /\ scraper = "AHScraper" =>
              /\ scraped_ids = {1, 2, 3} \cup {NameOf(1)}
              /\ progress_file = AHProgress(scraped_ids)

\* C2 witness: a first run of the scenario has returned with both pages written.
C2_ScenarioDriven ==
    /\ runs = 1 /\ pc = "done"
    /\ catalog[1].pages = ScenarioPages
    /\ FileRecords(output_file) = <<1, 2, 3>>
    /\ total_scraped_items = 3

\* C3: when a run of JumboScraper was killed and the next run is constructed
\* from the files on disk, that run does not die in the constructor, and
\* when it returns the output file holds the keys an uninterrupted run ends
\* with.
C3_Resumable ==
    (scraper = "JumboScraper" /\ runs > 1 /\ prev_pc = "down") =>
        /\ pc # "raised"
        /\ pc = "done" =>
              /\ output_file.kind = "json"
              /\ Ids(output_file.data)
                   = Ids(JumboUninterrupted(catalog[1].pages, {}, <<>>))

\* C4: a run of AHScraper or JumboScraper that follows a run that returned,
\* with the same files and the same answers of the API, returns with the
\* output file as the earlier run left it.
C4_Idempotent ==
    (scraper \in {"JumboScraper", "AHScraper"} /\ runs > 1
        /\ prev_pc = "done" /\ pc = "done")
        => output_file = prev_output

\* C5: the records an earlier run left in the output file stay, in place, at
\* the head of the output file during every later run.
C5_AppendOnly ==
    (runs > 1 /\ prev_output.kind = "json" /\ output_file.kind = "json")
        => IsPrefix(prev_output.data, output_file.data)

\* C6: every key the progress file holds as seen, and every key the loaded
\* object holds as seen, is the key of a record of the output file
\* (JumboScraper, AldiScraper, EnhancedJumboScraper).
C6_SeenIsWritten ==
    (scraper \in {"JumboScraper", "AldiScraper", "EnhancedJumboScraper"}
        /\ output_file.kind = "json")
        => /\ PersistedKeys \subseteq Ids(output_file.data)
           /\ (Running /\ pc # "construct")
                 => scraped_products \subseteq Ids(output_file.data)

\* C7: the keys in the output file that the progress file does not hold are
\* the keys of one page at most (AHScraper, AldiScraper, JumboScraper).
C7_OnePageUnsaved ==
    scraper \in {"AHScraper", "AldiScraper", "JumboScraper"} =>
        LET unsaved == Ids(FileRecords(output_file)) \ PersistedKeys
        IN \/ unsaved = {}
           \/ \E r \in ServedPages : unsaved \subseteq Ids(r.products)

\* C8: AHScraper and AldiScraper make no page request for a partition that
\* an earlier run drove to completion.
C8_CompletedSkipped ==
    (scraper \in {"AHScraper", "AldiScraper"} /\ pc = "process")
        => NameOf(part) \notin completed_earlier

\* C9: through kills and restarts of JumboScraper and AHScraper, no key is
\* twice in the output file (when no served page itself holds a key twice).
C9_ExactlyOnce ==
    (scraper \in {"JumboScraper", "AHScraper"} /\ InPageDuplicateFree)
        => NoDuplicateKey(FileRecords(output_file))

\* C10: the progress file of JumboScraper, AHScraper and EnhancedJumboScraper
\* never holds a torn text, also after a kill inside save_progress.
C10_AtomicCheckpoint ==
    scraper \in {"JumboScraper", "AHScraper", "EnhancedJumboScraper"}
        => progress_file.kind # "torn"

\* C11: constructing a scraper on a progress file that json.load rejects
\* does not raise: the object starts with no seen key, no completed
\* partition and the cursor at 0.
C11_CorruptCheckpoint ==
    [][(pc = "construct" /\ progress_file.kind = "torn" /\ pc' # "down")
          => /\ pc' # "raised"
             /\ scraped_products' = {} /\ scraped_ids' = {}
             /\ scraped_categories' = {} /\ last_offset' = 0]_vars

\* C12: JumboScraper.scrape_page enters the retry loop with 3 attempts; on a
\* page that answers 504 every time each attempt but the last is followed by
\* another, and the last one ends the page loop with the cursor on that page.
\* last_offset is never past the page scrape is at, and when scrape has
\* returned the progress file holds last_offset and the seen keys.
C12_BoundedRetry ==
    /\ [](scraper = "JumboScraper" =>
            /\ retries \in 1..RETRIES
            /\ pc # "fetch" => retries = RETRIES
            /\ pc \in {"fetch", "process", "final", "done"}
                  => last_offset = offset
            /\ pc = "done" =>
                  /\ progress_file.kind = "json"
                  /\ progress_file.last_offset = last_offset
                  /\ progress_file.scraped_products = scraped_products)
    /\ [][(/\ scraper = "JumboScraper" /\ pc = "fetch" /\ pc' # "down"
           /\ PageAt(1, offset \div limit + 1)' = TimeoutResponse)
            => /\ IF retries > 1
                  THEN pc' = "fetch" /\ retries' = retries - 1
                  ELSE pc' = "final"
               /\ UNCHANGED <<offset, last_offset, files>>]_vars

\* C12 witness: page 0 was committed, page 1 answered 504 on all attempts,
\* and scrape has returned with the checkpoint at page 1.
C12_GaveUpOnPage ==
    /\ scraper = "JumboScraper" /\ runs = 1 /\ pc = "done"
    /\ PageAt(1, 2) = TimeoutResponse
    /\ FileRecords(output_file) # <<>>
    /\ last_offset = limit
    /\ progress_file.kind = "json" /\ progress_file.last_offset = limit

\* C13: the attempt that gives a page up, and with it the partition, in
\* JumboScraper.scrape_page or AHScraper.scrape_subcategory is never the
\* first attempt at that page.
C13_FaultRetried ==
    [][(/\ scraper \in {"JumboScraper", "AHScraper"}
        /\ pc = "fetch" /\ pc' \in {"final", "raised"})
          => retries < RETRIES]_vars

\* C14: in one run, after two consecutive pages of a partition came back
\* with the same non-empty records, no further page of that partition is
\* asked for (AHScraper, JumboScraper, EnhancedJumboScraper).
C14_StallGuard ==
    (runs = 1 /\ scraper \in {"AHScraper", "JumboScraper", "EnhancedJumboScraper"})
        => \A p \in DOMAIN catalog :
              \A i \in DOMAIN catalog[p].pages :
                 (/\ i + 1 \in DOMAIN catalog[p].pages
                  /\ catalog[p].pages[i].kind = "ok"
                  /\ catalog[p].pages[i].products # <<>>
                  /\ catalog[p].pages[i + 1] = catalog[p].pages[i])
                     => Len(catalog[p].pages) = i + 1

\* C15: when run_scrapers_parallel has returned, a shop whose scrape runs
\* to its end and returns has status 'success' in the summary, also when
\* the scrape of another shop of the same call raises, and that other shop
\* has status 'failed'.
C15_Isolation ==
    runner_pc = "returned" =>
        \A a, b \in DOMAIN summary :
            (modules[a].kind = "raises" /\ modules[b].kind = "returns")
                => /\ summary[b].status = "success"
                   /\ summary[a].status = "failed"

\* C16: when run_scrapers_parallel has returned, every worker process has
\* ended, and the summary has an entry for each shop of the input list and
\* for nothing else, each with the status 'success' or 'failed'.
C16_SummaryComplete ==
    runner_pc = "returned" =>
        /\ \A i \in DOMAIN worker : worker[i].pc = "ended"
        /\ DOMAIN summary = {shops[i] : i \in DOMAIN shops}
        /\ \A s \in DOMAIN summary : summary[s].status \in {"success", "failed"}

\* C17: in the summary a shop has status 'success' exactly when its scrape
\* runs to its end and returns, then with total_products the number of
\* records it returns; every other shop has 'failed' with total_products 0.
C17_StatusTellsOutcome ==
    runner_pc = "returned" =>
        \A s \in DOMAIN summary :
            /\ summary[s].status = "success" <=> modules[s].kind = "returns"
            /\ summary[s].status = "success"
                  => summary[s].total_products = modules[s].produced
            /\ summary[s].status = "failed" => summary[s].total_products = 0

\* C18: with 'sequential' among the arguments (in any letter case, with any
\* other arguments), main starts no worker process, looks up no shop module
\* and stores no result; it ends by raising.
C18_SequentialFailsFast ==
    (\E i \in DOMAIN argv : Lower(argv[i]) = "sequential") =>
        /\ runner_pc \in {"main", "raised"}
        /\ worker = <<>>
        /\ results = EmptyDict
        /\ \A s \in ShopNames : modules[s] = NotLookedUp

\* C18 witness: main has raised on 'sequential' given after a shop name.
C18_RaisedOnSequential ==
    /\ runner_pc = "raised"
    /\ mode = "sequential"
    /\ argv = <<"jumbo", "SEQUENTIAL">>

\* A page request of the run was answered with an error, and no page held a
\* record without its key.
PageFetchFailed ==
    /\ \E r \in ServedPages : r.kind \in {"error", "timeout", "transport"}
    /\ \A r \in ServedPages : ~HasNoId(r.products)

\* C19: when the first run of AHScraper or JumboScraper has ended after a
\* page fetch failed, the progress file holds the key of every record in
\* the output file and the name of every partition the run completed.
C19_PartialProgressSaved ==
    (scraper \in {"AHScraper", "JumboScraper"} /\ runs = 1
        /\ pc \in {"done", "raised"} /\ PageFetchFailed)
        => /\ Ids(FileRecords(output_file)) \subseteq PersistedKeys
           /\ completed \subseteq PersistedKeys

\* C20: a page fetch of AHScraper.scrape_subcategory or of
\* EnhancedJumboScraper.scrape_category never ends the run by an exception.
C20_SkipPartition ==
    [][(scraper \in {"AHScraper", "EnhancedJumboScraper"} /\ pc = "fetch")
          => pc' # "raised"]_vars

\* The step is one of the run itself, not the end of its process.
RunStep == pc' \notin {"down", "construct"}

\* C22: when AldiScraper.scrape_category or AHScraper.scrape_subcategory has
\* fetched a page that holds no record, or only records already seen, the
\* partition is marked complete and the run goes on to the next partition.
C22_ExhaustedIsMarked ==
    [][(/\ pc = "process" /\ RunStep
        /\ ~HasNoId(response.products)
        /\ \/ /\ scraper = "AldiScraper"
              /\ AldiNewProducts(response.products, scraped_products) = <<>>
           \/ /\ scraper = "AHScraper"
              /\ AHNewProducts(response.products, scraped_ids) = <<>>
              /\ output_file.kind # "torn")
          => /\ pc' = "list"
             /\ part' = part + 1
             /\ NameOf(part) \in scraped_categories' \cup scraped_ids']_vars

\* The page the cursor of JumboScraper.scrape is at.
PageAtOffset == PageAt(1, offset \div limit + 1)

\* C23: the cursor of JumboScraper never goes back.  The last_offset in the
\* progress file never decreases, a progress file that json.load rejects
\* stays so, the object holds the persisted value, and within a run
\* last_offset changes only by one page size, after scrape_page has
\* returned True for a page whose keys are all in the seen set.
C23_CursorMonotonic ==
    /\ [](scraper = "JumboScraper" =>
            /\ (pc \in {"fetch", "process", "advance", "final", "done"}
                  /\ progress_file.kind = "json")
                  => progress_file.last_offset = last_offset
            /\ pc = "advance"
                  => /\ PageAtOffset.kind = "ok"
                     /\ Ids(PageAtOffset.products) \subseteq scraped_products
                     /\ output_file.kind = "json")
    /\ [][scraper = "JumboScraper" =>
            /\ (progress_file.kind = "json" /\ progress_file'.kind = "json")
                  => progress_file'.last_offset >= progress_file.last_offset
            /\ progress_file.kind = "torn" => progress_file'.kind = "torn"
            /\ (pc # "construct" /\ RunStep /\ last_offset' # last_offset)
                  => /\ pc = "advance"
                     /\ last_offset' = last_offset + limit
                     /\ progress_file'.last_offset = last_offset']_vars

\* C23 witness: the second run has resumed at the second page and has
\* moved the cursor past it.
C23_ResumedAndAdvanced ==
    /\ scraper = "JumboScraper"
    /\ runs = 2
    /\ pc = "fetch"
    /\ last_offset = 2 * limit
    /\ progress_file = JumboProgress(scraped_products, 2 * limit)
    /\ prev_pc = "down"

\* The new products of the page a scraper class is about to write.
NewProducts ==
    IF scraper = "JumboScraper"
    THEN JumboNewProducts(response.products, scraped_products)
    ELSE IF scraper = "AHScraper"
    THEN AHNewProducts(response.products, scraped_ids)
    ELSE DetailedProducts(response.products, scraped_products)

\* C25: when the output file holds no valid JSON and JumboScraper, AHScraper
\* or EnhancedJumboScraper has a page of new products to append, the append
\* does not raise and the file then holds exactly these products.
C25_CorruptOutputRecovered ==
    [][(/\ scraper \in {"JumboScraper", "AHScraper", "EnhancedJumboScraper"}
        /\ pc = "process" /\ RunStep
        /\ output_file.kind = "torn"
        /\ ~HasNoId(response.products)
        /\ NewProducts # <<>>)
          => /\ output_file' = JsonList(NewProducts)
             /\ pc' \notin {"raised", "final"}]_vars

\* C29: in the first run of AHScraper a subcategory is skipped only when the
\* run has driven it to exhaustion, and a product of a page is filtered out
\* only when its key is in the output file.
C29_MarkersAndKeysApart ==
    [][(scraper = "AHScraper" /\ runs = 1 /\ RunStep) =>
          /\ (pc = "list" /\ pc' = "list" /\ part' = part + 1)
                => catalog'[part].name \in completed
          /\ (pc = "process" /\ ~HasNoId(response.products)
                /\ output_file.kind = "json")
                => \A i \in DOMAIN response.products :
                      response.products[i] \in scraped_ids
                         => response.products[i]
                               \in Ids(FileRecords(output_file))]_vars

\* C30: whenever JumboScraper.scrape_page ends without returning True, the
\* output file, scraped_products and total_scraped_items are as before.
C30_FailedPageFrame ==
    [][(scraper = "JumboScraper" /\ pc \in {"fetch", "process"}
          /\ pc' = "final")
          => UNCHANGED <<output_file, scraped_products,
                         total_scraped_items>>]_vars

\* C21: an authenticate that raises ends the run of AHScraper, and a failed
\* fetch_version_token the run of plus_scraper, at once.  After it the run
\* is never at a category listing, a page fetch or a write; the failing
\* step and every step up to it from the start of the run leave the files
\* and the remote untouched; and an ended run takes no further step.
C21_AuthFailureAborts ==
    /\ [](/\ (scraper = "AHScraper" /\ auth_raised) => pc = "raised"
          /\ (scraper = "plus_scraper" /\ token = "none")
               => pc \in {"construct", "token", "done", "down"})
    /\ [][/\ (scraper \in {"AHScraper", "plus_scraper"}
                /\ pc \in {"construct", "auth", "token"}
                /\ pc' \in {"auth", "token", "raised", "done"})
               => UNCHANGED <<files, plus_files, remote>>
          /\ (scraper \in {"AHScraper", "plus_scraper"}
                /\ pc \in {"raised", "done"})
               => /\ pc' = "construct" /\ runs' = runs + 1
                  /\ UNCHANGED <<files, plus_files, remote>>]_vars

\* C21 witness: the second run of AHScraper has ended in an authenticate
\* that raised, and the output file is as the first run left it, with
\* records in it.
C21_SecondRunFailedAuth ==
    /\ scraper = "AHScraper"
    /\ runs = 2
    /\ pc = "raised"
    /\ auth_raised
    /\ token = "none"
    /\ scraped_ids # {}
    /\ FileRecords(output_file) # <<>>
    /\ output_file = prev_output

\* The files a shop's scraper opens by a fixed name.
FilesOf(shop) ==
    IF shop = "plus"
    THEN {CATEGORIES_FILE, ALL_PRODUCTS_FILE}
    ELSE {"data/" \o shop \o "_products.json",
          "data/" \o shop \o "_scrape_progress.json"}

\* C24: no file that plus_scraper writes for a category is a file of the
\* scraper of ah, jumbo or aldi, whatever slugs the API of plus lists.
C24_ExclusiveFiles ==
    \A slug \in PlusSlugs :
        (scraper = "plus_scraper" /\ category_files[slug].kind # "absent")
            => \A shop \in ShopNames \ {"plus"} :
                  CategoryFile(slug) \notin FilesOf(shop)

\* The products of the pages of one category, and of all categories, as the
\* API has answered them.
RECURSIVE ProductsIn(_)
ProductsIn(pages) ==
    IF pages = <<>> THEN <<>>
    ELSE Head(pages).products \o ProductsIn(Tail(pages))

RECURSIVE CatalogProducts(_)
CatalogProducts(cat) ==
    IF cat = <<>> THEN <<>>
    ELSE ProductsIn(Head(cat).pages) \o CatalogProducts(Tail(cat))

\* What a run of scrape_plus_data that scrapes every category writes to
\* ALL_PRODUCTS_FILE.
PlusUninterrupted == JsonList(CatalogProducts(catalog))

\* C27: when scrape_plus_data has written plus_products.json, the file
\* holds the products of every top-level category, as after an
\* uninterrupted run, also when a category file was on disk at the start.
C27_AllCategoriesInResult ==
    (scraper = "plus_scraper" /\ pc = "cleanup" /\ part = 1)
        => output_file = PlusUninterrupted

\* A request for a page of category p failed.
FetchFailed(p) ==
    \E i \in DOMAIN catalog[p].pages : catalog[p].pages[i].kind # "ok"

\* C28: no file data/<slug>.json is on disk for a category of which the
\* fetch of a page failed: a file is there only for a category all of whose
\* pages were fetched.
C28_FileOnlyWhenComplete ==
    scraper = "plus_scraper" =>
        \A p \in DOMAIN catalog :
            FetchFailed(p) => PlusFile(NameOf(p)).kind = "absent"

\* The requests of the pages 0..n-1 with page size sz.
PagesUpTo(n, sz) == [i \in 1..n |-> Request(i - 1, sz)]

\* C26: JumboConnector caps at 30 pages.  search_products raises
\* PaginationLimitReached only for a page past the 30th, and
\* search_all_products has yielded, when it ends, every page from 0 to
\* ceil(total/size)-1 that is among the first 30, in order.
C26_PageCap ==
    /\ connector_pc = "PaginationLimitReached"
          => requested_page >= PaginationLimit
    /\ connector_pc = "capped" => requested_page >= PaginationLimit
    /\ connector_pc \in {"capped", "exhausted"}
          => yielded = PagesUpTo(Min(Max(1, Ceil(total.value, SizeOrDefault)),
                                     PaginationLimit),
                                 SizeOrDefault)

=============================================================================
